---- MODULE Spec2Model ----
(***************************************************************************)
(* Model of the PesaPal payment routes of src/index.js (second revision,   *)
(* lines 580-832): order creation, status poll and the IPN callback,       *)
(* running concurrently against the Firestore collections pesapalOrders    *)
(* and payments and against the PesaPal gateway.  Every handler is split   *)
(* at its awaits: one action per resumption of the handler.  The PayPal    *)
(* routes (lines 839-935) and the developer registration (lines 950-992)   *)
(* are modelled the same way, each with a specification of its own.        *)
(***************************************************************************)
EXTENDS Integers, FiniteSets, Sequences, Bags, TLC

VARIABLES
    req,            \* per request slot: the running handler, its locals, its response
    pesapalOrders,  \* Firestore collection pesapalOrders: doc id -> document
    payments,       \* Firestore collection payments: bag of documents (auto ids)
    submitted,      \* gateway: merchant references it accepted a submission for
    authCalls,      \* gateway: number of Auth/RequestToken calls received
    tokenLive,      \* gateway: a token it issued has not expired yet
    started,        \* number of requests that entered a handler
    paypalOrders,   \* Firestore collection paypalOrders: doc id -> document
    paypalGateway,  \* PayPal: order id -> state of the order at PayPal
    developerTags,  \* Firestore collection developerTags: tag -> document
    users,          \* Firestore collection users: uid -> document
    authUsers       \* Firebase Auth: uids of the users created

paypalVars == <<paypalOrders, paypalGateway>>

registerVars == <<developerTags, users, authUsers>>

vars == <<req, pesapalOrders, payments, submitted, authCalls, tokenLive, started,
          paypalVars, registerVars>>

----------------------------------------------------------------------------
(* Bounds *)

NumProcs == 2       \* request slots that can be in a handler at the same time
MaxRequests == 3    \* requests handled in one behaviour
NumOrderIds == 2    \* distinct values the orderId generator can produce
NumPayPalIds == 2   \* order ids PayPal can assign
NumUids == 2        \* distinct values of dev-${Date.now()}

Procs == 1..NumProcs

----------------------------------------------------------------------------
(* Identifiers and inputs *)

\* `BRANDIFY-${Date.now()}-${Math.floor(Math.random() * 1000)}`
OrderIds == {<<"BRANDIFY", i>> : i \in 1..NumOrderIds}

\* order_tracking_id the gateway assigns to a submitted merchant reference
TrackingIdOf(orderId) == <<"TRACK", orderId[2]>>

TrackIds == {TrackingIdOf(o) : o \in OrderIds}

\* a missing field of a request body or query (undefined)
NoId == <<"undefined", 0>>

DocIds == OrderIds \cup TrackIds

\* payment_status strings carried by callbacks and by status responses
StatusValues == {"PENDING", "COMPLETED", "FAILED", "INVALID", "REVERSED"}

Terminal == {"COMPLETED", "FAILED", "INVALID"}

\* request bodies of order creation
Amounts == {-5, 0, 1000}
Currencies == {"", "KES"}
Emails == {"", "a@b.com"}

Idle == [kind |-> "none", pc |-> "idle", id |-> NoId, status |-> "",
         amount |-> 0, currency |-> "", customerEmail |-> "",
         token |-> "", redirectUrl |-> "", timer |-> FALSE,
         found |-> FALSE, tag |-> "",
         resp |-> 0, error |-> ""]

----------------------------------------------------------------------------
(* Firestore *)

\* DocumentReference.set(data, {merge: true}): creates the document or
\* overwrites the given fields of the existing one
SetMerge(coll, id, data) ==
    IF id \in DOMAIN coll
    THEN [d \in DOMAIN coll |->
            IF d = id
            THEN [f \in DOMAIN coll[d] \cup DOMAIN data |->
                    IF f \in DOMAIN data THEN data[f] ELSE coll[d][f]]
            ELSE coll[d]]
    ELSE [d \in DOMAIN coll \cup {id} |-> IF d = id THEN data ELSE coll[d]]

\* DocumentReference.set(data): creates the document or replaces it
SetDoc(coll, id, data) ==
    [d \in DOMAIN coll \cup {id} |-> IF d = id THEN data ELSE coll[d]]

\* DocumentReference.update(data) succeeds only on an existing document
UpdateFails(coll, id) == id \notin DOMAIN coll

\* an update that behaves like set(data, {merge: true}): creates the document
UpdateOrCreate(coll, id, data) == SetMerge(coll, id, data)

\* an update that replaces the whole document by the given fields
UpdateReplace(coll, id, data) ==
    IF UpdateFails(coll, id) THEN coll ELSE [coll EXCEPT ![id] = data]

\* DocumentReference.update(data): overwrites the given fields of an existing
\* document, writes nothing (and rejects with NOT_FOUND) when there is none
Update(coll, id, data) ==
    IF UpdateFails(coll, id) THEN coll ELSE SetMerge(coll, id, data)

\* number of documents of the collection pays whose orderId is id
PaymentCount(pays, id) ==
    LET recs == {r \in BagToSet(pays) : r.orderId = id}
        RECURSIVE Sum(_)
        Sum(S) == IF S = {} THEN 0
                  ELSE LET r == CHOOSE x \in S : TRUE
                       IN CopiesIn(r, pays) + Sum(S \ {r})
    IN Sum(recs)

----------------------------------------------------------------------------
(* Responses *)

\* res.status(code)...: the handler ends and its locals are dropped; err is
\* the message of the error its catch block logged ("" when none was thrown)
Respond(p, code, err) ==
    req' = [req EXCEPT ![p] = [Idle EXCEPT !.kind = req[p].kind, !.pc = "done",
                                          !.resp = code, !.error = err]]

Goto(p, label) == req' = [req EXCEPT ![p].pc = label]

----------------------------------------------------------------------------
Init ==
    /\ req = [p \in Procs |-> Idle]
    /\ pesapalOrders = << >>
    /\ payments = EmptyBag
    /\ submitted = {}
    /\ authCalls = 0
    /\ tokenLive = FALSE
    /\ started = 0
    /\ paypalOrders = << >>
    /\ paypalGateway = << >>
    /\ developerTags = << >>
    /\ users = << >>
    /\ authUsers = {}

----------------------------------------------------------------------------
(* POST /api/create-pesapal-order *)

\* a validation that forgets customerEmail
MissingFieldsNoEmail(amount, currency, customerEmail) ==
    amount = 0 \/ currency = ""

\* !amount || !currency || !customerEmail (0 stands for every falsy amount)
MissingFields(amount, currency, customerEmail) ==
    amount = 0 \/ currency = "" \/ customerEmail = ""

\* validation of the body, orderId generation, the abort timer is armed and
\* the auth call is sent
CreateOrder(p, amount, currency, customerEmail) ==
    /\ req[p].pc = "idle"
    /\ started < MaxRequests
    /\ started' = started + 1
    /\ IF MissingFields(amount, currency, customerEmail)
       THEN /\ req' = [req EXCEPT ![p] = [Idle EXCEPT !.kind = "create",
                           !.pc = "done", !.resp = 400]]
            /\ UNCHANGED authCalls
       ELSE /\ \E orderId \in OrderIds :
                 req' = [req EXCEPT ![p] = [Idle EXCEPT !.kind = "create",
                           !.pc = "auth", !.id = orderId, !.amount = amount,
                           !.currency = currency,
                           !.customerEmail = customerEmail,
                           !.timer = TRUE]]
            /\ authCalls' = authCalls + 1
    /\ UNCHANGED <<pesapalOrders, payments, submitted, tokenLive,
                 paypalVars, registerVars>>

AuthOutcomes == {"ok", "notok", "notoken", "abort"}

\* authData.token ("" when the response carries none)
AuthToken(outcome) == IF outcome = "ok" THEN "token" ELSE ""

\* a handler that checks neither authResponse.ok nor authData.token
AuthErrorUnchecked(outcome) == IF outcome = "abort" THEN "fetch failed" ELSE ""

\* the error thrown while the auth response is handled ("" when none): the
\* fetch rejects, !authResponse.ok, or !authData.token
AuthError(outcome) ==
    CASE outcome = "abort" -> "fetch failed"
      [] outcome = "notok" -> "PesaPal auth failed"
      [] outcome = "notoken" -> "no access token"
      [] OTHER -> ""

\* the gateway issues a token with a successful auth response
IssueToken(outcome) == tokenLive' = (tokenLive \/ outcome = "ok")

\* the auth call settles: token, non-2xx, no token, or the fetch rejects
\* (here: aborted by the timer); on success the timer is cleared and the
\* submission is sent
CreateAuthResponse(p, outcome) ==
    /\ req[p].kind = "create" /\ req[p].pc = "auth"
    /\ IF AuthError(outcome) # ""
       THEN Respond(p, 500, AuthError(outcome))
       ELSE req' = [req EXCEPT ![p].pc = "submit", ![p].timer = FALSE,
                                ![p].token = AuthToken(outcome)]
    /\ IssueToken(outcome)
    /\ UNCHANGED <<pesapalOrders, payments, submitted, authCalls, started,
                 paypalVars, registerVars>>

\* 2xx with redirect_url, 2xx without it, a structured rejection (non-2xx),
\* 401, or the fetch rejects
SubmitOutcomes == {"ok", "noredirect", "notok", "unauthorized", "neterr"}

\* orderResult.redirect_url ("" when the response carries none)
SubmitRedirect(outcome) == IF outcome = "ok" THEN "url" ELSE ""

\* a handler that does not check orderResult.redirect_url
SubmitErrorNoRedirectCheck(outcome) ==
    CASE outcome = "neterr" -> "fetch failed"
      [] outcome = "notok" -> "order submission failed"
      [] outcome = "unauthorized" -> "order submission failed: 401"
      [] OTHER -> ""

\* the error thrown while the submission response is handled ("" when none):
\* the fetch rejects, !orderResponse.ok, or !orderResult.redirect_url
SubmitError(outcome) ==
    CASE outcome = "neterr" -> "fetch failed"
      [] outcome = "notok" -> "order submission failed"
      [] outcome = "unauthorized" -> "order submission failed: 401"
      [] outcome = "noredirect" -> "no redirect URL"
      [] OTHER -> ""

\* a catch block that sends a rejected submission again
SubmitFailureRetry(p, err) ==
    IF err = "order submission failed"
    THEN req' = [req EXCEPT ![p].pc = "auth"]
    ELSE Respond(p, 500, err)

\* the catch block of order creation: the error is sent to the caller
SubmitFailure(p, err) == Respond(p, 500, err)

\* SubmitOrderRequest settles; a 2xx answer means the gateway took the order
CreateSubmitResponse(p, outcome) ==
    /\ req[p].kind = "create" /\ req[p].pc = "submit"
    /\ submitted' = IF outcome \in {"ok", "noredirect"}
                    THEN submitted \cup {req[p].id} ELSE submitted
    /\ IF SubmitError(outcome) # ""
       THEN SubmitFailure(p, SubmitError(outcome))
       ELSE req' = [req EXCEPT ![p].pc = "save",
                                ![p].redirectUrl = SubmitRedirect(outcome)]
    /\ UNCHANGED <<pesapalOrders, payments, authCalls, tokenLive, started,
                 paypalVars, registerVars>>

\* the document written by order creation
OrderDoc(r) ==
    [orderId |-> r.id, amount |-> r.amount, currency |-> r.currency,
     customerEmail |-> r.customerEmail, status |-> "PENDING",
     redirectUrl |-> r.redirectUrl]

\* orderRef.set(..., {merge: true}) settles, then res.json
CreateSave(p, storeOk) ==
    /\ req[p].kind = "create" /\ req[p].pc = "save"
    /\ IF storeOk
       THEN /\ pesapalOrders' = SetMerge(pesapalOrders, req[p].id, OrderDoc(req[p]))
            /\ Respond(p, 200, "")
       ELSE /\ Respond(p, 500, "UNAVAILABLE")
            /\ UNCHANGED pesapalOrders
    /\ UNCHANGED <<payments, submitted, authCalls, tokenLive, started,
                 paypalVars, registerVars>>

----------------------------------------------------------------------------
(* GET /api/pesapal-payment-status *)

\* the query is read, the auth call is sent
PaymentStatus(p, orderId) ==
    /\ req[p].pc = "idle"
    /\ started < MaxRequests
    /\ started' = started + 1
    /\ IF orderId = NoId
       THEN /\ req' = [req EXCEPT ![p] = [Idle EXCEPT !.kind = "poll",
                           !.pc = "done", !.resp = 400]]
            /\ UNCHANGED authCalls
       ELSE /\ req' = [req EXCEPT ![p] = [Idle EXCEPT !.kind = "poll",
                           !.pc = "auth", !.id = orderId]]
            /\ authCalls' = authCalls + 1
    /\ UNCHANGED <<pesapalOrders, payments, submitted, tokenLive,
                 paypalVars, registerVars>>

\* the auth call settles (no timer in this handler; the fetch rejects on a
\* network error only); on success the status query is sent
PollAuthResponse(p, outcome) ==
    /\ req[p].kind = "poll" /\ req[p].pc = "auth"
    /\ IF AuthError(outcome) # ""
       THEN Respond(p, 500, AuthError(outcome))
       ELSE req' = [req EXCEPT ![p].pc = "status",
                                ![p].token = AuthToken(outcome)]
    /\ IssueToken(outcome)
    /\ UNCHANGED <<pesapalOrders, payments, submitted, authCalls, started,
                 paypalVars, registerVars>>

\* a handler that updates the order whatever the status response carries
AnyPaymentStatus(paymentStatus) == TRUE

\* if (statusData.payment_status)
HasPaymentStatus(paymentStatus) == paymentStatus # ""

\* HTTP status of a gateway answer: success, token rejected, other failure
HttpStatuses == {200, 401, 500}

\* GetTransactionStatus?orderTrackingId=${orderId} settles: non-2xx, or a
\* body whose payment_status is paymentStatus ("" when the field is absent)
PollStatusResponse(p, httpStatus, paymentStatus) ==
    /\ req[p].kind = "poll" /\ req[p].pc = "status"
    /\ IF httpStatus # 200
       THEN Respond(p, 500, IF httpStatus = 401 THEN "Status check failed: 401"
                                               ELSE "Status check failed")
       ELSE IF HasPaymentStatus(paymentStatus)
            THEN req' = [req EXCEPT ![p].pc = "update", ![p].status = paymentStatus]
            ELSE Respond(p, 200, "")
    /\ UNCHANGED <<pesapalOrders, payments, submitted, authCalls, tokenLive, started,
                 paypalVars, registerVars>>

\* orderRef.update({status, updatedAt}) settles, then res.json
PollUpdate(p, storeOk) ==
    /\ req[p].kind = "poll" /\ req[p].pc = "update"
    /\ IF ~storeOk
       THEN /\ Respond(p, 500, "UNAVAILABLE")
            /\ UNCHANGED pesapalOrders
       ELSE /\ pesapalOrders' = Update(pesapalOrders, req[p].id,
                                       [status |-> req[p].status])
            /\ IF UpdateFails(pesapalOrders, req[p].id)
               THEN Respond(p, 500, "NOT_FOUND")
               ELSE Respond(p, 200, "")
    /\ UNCHANGED <<payments, submitted, authCalls, tokenLive, started,
                 paypalVars, registerVars>>

----------------------------------------------------------------------------
(* POST /api/pesapal-ipn *)

\* the body is read, orderRef.update is sent; doc(undefined) throws inside the
\* try block when the body has no order_tracking_id
Ipn(p, orderTrackingId, paymentStatus) ==
    /\ req[p].pc = "idle"
    /\ started < MaxRequests
    /\ started' = started + 1
    /\ IF orderTrackingId = NoId
       THEN req' = [req EXCEPT ![p] = [Idle EXCEPT !.kind = "ipn", !.pc = "done",
                       !.resp = 500, !.error = "invalid document path"]]
       ELSE req' = [req EXCEPT ![p] = [Idle EXCEPT !.kind = "ipn", !.pc = "update",
                       !.id = orderTrackingId, !.status = paymentStatus]]
    /\ UNCHANGED <<pesapalOrders, payments, submitted, authCalls, tokenLive,
                 paypalVars, registerVars>>

\* orderRef.update({status, ipnReceivedAt}) settles
IpnUpdate(p, storeOk) ==
    /\ req[p].kind = "ipn" /\ req[p].pc = "update"
    /\ IF ~storeOk
       THEN /\ Respond(p, 500, "UNAVAILABLE")
            /\ UNCHANGED pesapalOrders
       ELSE /\ pesapalOrders' = Update(pesapalOrders, req[p].id,
                                       [status |-> req[p].status])
            /\ IF UpdateFails(pesapalOrders, req[p].id)
               THEN Respond(p, 500, "NOT_FOUND")
               ELSE IF req[p].status = "COMPLETED"
                    THEN Goto(p, "get")
                    ELSE Respond(p, 200, "")
    /\ UNCHANGED <<payments, submitted, authCalls, tokenLive, started,
                 paypalVars, registerVars>>

\* orderRef.get() settles; orderData is read when the payment is built
IpnGet(p, storeOk) ==
    /\ req[p].kind = "ipn" /\ req[p].pc = "get"
    /\ IF storeOk
       THEN req' = [req EXCEPT ![p].pc = "add",
                       ![p].amount = pesapalOrders[req[p].id].amount,
                       ![p].currency = pesapalOrders[req[p].id].currency,
                       ![p].customerEmail = pesapalOrders[req[p].id].customerEmail]
       ELSE Respond(p, 500, "UNAVAILABLE")
    /\ UNCHANGED <<pesapalOrders, payments, submitted, authCalls, tokenLive, started,
                 paypalVars, registerVars>>

\* a payment whose orderId is read from a field the callback does not have
PaymentDocNoOrderId(r) ==
    [email |-> r.customerEmail, amount |-> r.amount, currency |-> r.currency,
     paymentMethod |-> "pesapal", status |-> "completed", orderId |-> NoId]

\* the document added to payments by the callback
PaymentDoc(r) ==
    [email |-> r.customerEmail, amount |-> r.amount, currency |-> r.currency,
     paymentMethod |-> "pesapal", status |-> "completed", orderId |-> r.id]

\* db.collection('payments').add(...) settles, then res.status(200)
IpnAdd(p, storeOk) ==
    /\ req[p].kind = "ipn" /\ req[p].pc = "add"
    /\ IF storeOk
       THEN /\ payments' = payments (+) SetToBag({PaymentDoc(req[p])})
            /\ Respond(p, 200, "")
       ELSE /\ Respond(p, 500, "UNAVAILABLE")
            /\ UNCHANGED payments
    /\ UNCHANGED <<pesapalOrders, submitted, authCalls, tokenLive, started,
                 paypalVars, registerVars>>

----------------------------------------------------------------------------
\* the token the gateway issued reaches its expiry
TokenExpire ==
    /\ tokenLive
    /\ tokenLive' = FALSE
    /\ UNCHANGED <<req, pesapalOrders, payments, submitted, authCalls, started,
                 paypalVars, registerVars>>

\* the response is sent and the slot takes the next request
Finish(p) ==
    /\ req[p].pc = "done"
    /\ req' = [req EXCEPT ![p] = Idle]
    /\ UNCHANGED <<pesapalOrders, payments, submitted, authCalls, tokenLive, started,
                 paypalVars, registerVars>>

Next ==
    \/ \E p \in Procs, a \in Amounts, c \in Currencies, e \in Emails :
           CreateOrder(p, a, c, e)
    \/ \E p \in Procs, o \in AuthOutcomes : CreateAuthResponse(p, o)
    \/ \E p \in Procs, o \in SubmitOutcomes : CreateSubmitResponse(p, o)
    \/ \E p \in Procs, ok \in BOOLEAN : CreateSave(p, ok)
    \/ \E p \in Procs, id \in DocIds \cup {NoId} : PaymentStatus(p, id)
    \/ \E p \in Procs, o \in AuthOutcomes : PollAuthResponse(p, o)
    \/ \E p \in Procs, h \in HttpStatuses, s \in StatusValues \cup {""} :
           PollStatusResponse(p, h, s)
    \/ \E p \in Procs, ok \in BOOLEAN : PollUpdate(p, ok)
    \/ \E p \in Procs, id \in DocIds \cup {NoId}, s \in StatusValues : Ipn(p, id, s)
    \/ \E p \in Procs, ok \in BOOLEAN : IpnUpdate(p, ok)
    \/ \E p \in Procs, ok \in BOOLEAN : IpnGet(p, ok)
    \/ \E p \in Procs, ok \in BOOLEAN : IpnAdd(p, ok)
    \/ TokenExpire
    \/ \E p \in Procs : Finish(p)

Spec == Init /\ [][Next]_vars

pesapalVars == <<pesapalOrders, submitted, authCalls, tokenLive>>

----------------------------------------------------------------------------
(* POST /api/create-paypal-order, POST /api/capture-paypal-order *)

\* order.result.id: the id PayPal assigns to a created order
PayPalIds == {<<"PAYPAL", i>> : i \in 1..NumPayPalIds}

\* the body is read and the create request is built; amount.toString() throws
\* inside the try block when the body has no amount (0); otherwise the
\* request is sent
CreatePayPalOrder(p, amount, currency) ==
    /\ req[p].pc = "idle"
    /\ started < MaxRequests
    /\ started' = started + 1
    /\ IF amount = 0
       THEN req' = [req EXCEPT ![p] = [Idle EXCEPT !.kind = "ppcreate",
                       !.pc = "done", !.resp = 500, !.error = "TypeError"]]
       ELSE req' = [req EXCEPT ![p] = [Idle EXCEPT !.kind = "ppcreate",
                       !.pc = "execute", !.amount = amount,
                       !.currency = currency]]
    /\ UNCHANGED <<payments, pesapalVars, paypalVars, registerVars>>

\* paypalClient.execute(request) settles: PayPal created the order under a
\* new id, or the call rejects (NoId)
PayPalCreateResponse(p, id) ==
    /\ req[p].kind = "ppcreate" /\ req[p].pc = "execute"
    /\ id \notin DOMAIN paypalGateway
    /\ IF id = NoId
       THEN /\ Respond(p, 500, "paypal error")
            /\ UNCHANGED paypalGateway
       ELSE /\ req' = [req EXCEPT ![p].pc = "set", ![p].id = id]
            /\ paypalGateway' = SetDoc(paypalGateway, id, "CREATED")
    /\ UNCHANGED <<payments, started, pesapalVars, paypalOrders, registerVars>>

\* the document written by PayPal order creation
PayPalOrderDoc(r) ==
    [orderId |-> r.id, amount |-> r.amount, currency |-> r.currency,
     status |-> "CREATED"]

\* orderRef.set({...}) settles, then res.json
PayPalCreateSet(p, storeOk) ==
    /\ req[p].kind = "ppcreate" /\ req[p].pc = "set"
    /\ IF storeOk
       THEN /\ paypalOrders' = SetDoc(paypalOrders, req[p].id, PayPalOrderDoc(req[p]))
            /\ Respond(p, 200, "")
       ELSE /\ Respond(p, 500, "UNAVAILABLE")
            /\ UNCHANGED paypalOrders
    /\ UNCHANGED <<payments, started, pesapalVars, paypalGateway, registerVars>>

\* the buyer approves the order at PayPal
BuyerApproves(id) ==
    /\ id \in DOMAIN paypalGateway
    /\ paypalGateway[id] = "CREATED"
    /\ paypalGateway' = [paypalGateway EXCEPT ![id] = "APPROVED"]
    /\ UNCHANGED <<req, payments, started, pesapalVars, paypalOrders, registerVars>>

\* the body is read and the capture request for orderID is sent
CapturePayPalOrder(p, orderID) ==
    /\ req[p].pc = "idle"
    /\ started < MaxRequests
    /\ started' = started + 1
    /\ req' = [req EXCEPT ![p] = [Idle EXCEPT !.kind = "capture",
                   !.pc = "execute", !.id = orderID]]
    /\ UNCHANGED <<payments, pesapalVars, paypalVars, registerVars>>

\* PayPal captures an order the buyer approved, when the call reaches it
Captured(id, netOk) ==
    netOk /\ id \in DOMAIN paypalGateway /\ paypalGateway[id] = "APPROVED"

\* a handler that goes on whatever the capture call answered
CaptureUnchecked(captured) == TRUE

\* await paypalClient.execute(request) rejects unless the capture succeeded
CaptureOk(captured) == captured

\* the capture call settles; on success orderRef.get() is sent
CaptureResponse(p, netOk) ==
    /\ req[p].kind = "capture" /\ req[p].pc = "execute"
    /\ paypalGateway' = IF Captured(req[p].id, netOk)
                        THEN [paypalGateway EXCEPT ![req[p].id] = "COMPLETED"]
                        ELSE paypalGateway
    /\ IF CaptureOk(Captured(req[p].id, netOk))
       THEN Goto(p, "get")
       ELSE Respond(p, 500, "paypal error")
    /\ UNCHANGED <<payments, started, pesapalVars, paypalOrders, registerVars>>

\* orderRef.get() settles; orderDoc.data() is undefined when there is no
\* document (found = FALSE); then orderRef.update is sent
CaptureGet(p, storeOk) ==
    /\ req[p].kind = "capture" /\ req[p].pc = "get"
    /\ IF ~storeOk
       THEN Respond(p, 500, "UNAVAILABLE")
       ELSE IF req[p].id \in DOMAIN paypalOrders
            THEN req' = [req EXCEPT ![p].pc = "update", ![p].found = TRUE,
                            ![p].amount = paypalOrders[req[p].id].amount,
                            ![p].currency = paypalOrders[req[p].id].currency]
            ELSE Goto(p, "update")
    /\ UNCHANGED <<payments, started, pesapalVars, paypalVars, registerVars>>

\* orderRef.update({status: 'COMPLETED', ...}) settles; paymentData is built,
\* which throws on orderData.planId when orderData is undefined; then
\* payments.add is sent
CaptureUpdate(p, storeOk) ==
    /\ req[p].kind = "capture" /\ req[p].pc = "update"
    /\ IF ~storeOk
       THEN /\ Respond(p, 500, "UNAVAILABLE")
            /\ UNCHANGED paypalOrders
       ELSE /\ paypalOrders' = Update(paypalOrders, req[p].id,
                                      [status |-> "COMPLETED"])
            /\ IF UpdateFails(paypalOrders, req[p].id)
               THEN Respond(p, 500, "NOT_FOUND")
               ELSE IF ~req[p].found
                    THEN Respond(p, 500, "TypeError")
                    ELSE Goto(p, "add")
    /\ UNCHANGED <<payments, started, pesapalVars, paypalGateway, registerVars>>

\* paymentData of the capture handler
PayPalPaymentDoc(r) ==
    [email |-> "payer", amount |-> r.amount, currency |-> r.currency,
     paymentMethod |-> "paypal", status |-> "completed", orderId |-> r.id]

\* db.collection('payments').add(paymentData) settles, then res.json
CaptureAdd(p, storeOk) ==
    /\ req[p].kind = "capture" /\ req[p].pc = "add"
    /\ IF storeOk
       THEN /\ payments' = payments (+) SetToBag({PayPalPaymentDoc(req[p])})
            /\ Respond(p, 200, "")
       ELSE /\ Respond(p, 500, "UNAVAILABLE")
            /\ UNCHANGED payments
    /\ UNCHANGED <<started, pesapalVars, paypalVars, registerVars>>

NextPayPal ==
    \/ \E p \in Procs, a \in {0, 1000}, c \in {"USD"} : CreatePayPalOrder(p, a, c)
    \/ \E p \in Procs, id \in PayPalIds \cup {NoId} : PayPalCreateResponse(p, id)
    \/ \E p \in Procs, ok \in BOOLEAN : PayPalCreateSet(p, ok)
    \/ \E id \in PayPalIds : BuyerApproves(id)
    \/ \E p \in Procs, id \in PayPalIds \cup {NoId} : CapturePayPalOrder(p, id)
    \/ \E p \in Procs, ok \in BOOLEAN : CaptureResponse(p, ok)
    \/ \E p \in Procs, ok \in BOOLEAN : CaptureGet(p, ok)
    \/ \E p \in Procs, ok \in BOOLEAN : CaptureUpdate(p, ok)
    \/ \E p \in Procs, ok \in BOOLEAN : CaptureAdd(p, ok)
    \/ \E p \in Procs : Finish(p)

SpecPayPal == Init /\ [][NextPayPal]_vars

----------------------------------------------------------------------------
(* POST /index *)

\* tag of the request body ("" when the body has none)
Tags == {"", "alpha", "beta"}

\* `dev-${Date.now()}`
Uids == {<<"dev", i>> : i \in 1..NumUids}

\* the body is read; without a tag the handler answers 400, otherwise the uid
\* is built and admin.auth().createUser is sent
Register(p, tag) ==
    /\ req[p].pc = "idle"
    /\ started < MaxRequests
    /\ started' = started + 1
    /\ IF tag = ""
       THEN req' = [req EXCEPT ![p] = [Idle EXCEPT !.kind = "register",
                       !.pc = "done", !.resp = 400]]
       ELSE \E uid \in Uids :
                req' = [req EXCEPT ![p] = [Idle EXCEPT !.kind = "register",
                           !.pc = "createUser", !.id = uid, !.tag = tag]]
    /\ UNCHANGED <<payments, pesapalVars, paypalVars, registerVars>>

\* createUser({uid}) settles: it rejects when the uid exists already or the
\* service fails; then createCustomToken is sent
RegisterCreateUser(p, authOk) ==
    /\ req[p].kind = "register" /\ req[p].pc = "createUser"
    /\ IF authOk /\ req[p].id \notin authUsers
       THEN /\ authUsers' = authUsers \cup {req[p].id}
            /\ Goto(p, "createCustomToken")
       ELSE /\ Respond(p, 500, "auth error")
            /\ UNCHANGED authUsers
    /\ UNCHANGED <<payments, started, pesapalVars, paypalVars, developerTags, users>>

\* createCustomToken(uid) settles; the two documents are built and the batch
\* is sent
RegisterCreateToken(p, authOk) ==
    /\ req[p].kind = "register" /\ req[p].pc = "createCustomToken"
    /\ IF authOk THEN Goto(p, "commit") ELSE Respond(p, 500, "auth error")
    /\ UNCHANGED <<payments, started, pesapalVars, paypalVars, registerVars>>

TagDoc(r) == [tag |-> r.tag, assignedTo |-> r.id, isActive |-> TRUE]

UserDoc(r) == [name |-> "Developer", tag |-> r.tag, isManager |-> FALSE]

\* a commit that writes the user document only
BatchCommitUserOnly(tags, usrs, r) ==
    <<tags, SetDoc(usrs, r.id, UserDoc(r))>>

\* batch.set(tagRef, tagDoc); batch.set(userRef, userDoc); batch.commit():
\* both documents are written in one atomic commit
BatchCommit(tags, usrs, r) ==
    <<SetDoc(tags, r.tag, TagDoc(r)), SetDoc(usrs, r.id, UserDoc(r))>>

\* batch.commit() settles, then res.json
RegisterCommit(p, storeOk) ==
    /\ req[p].kind = "register" /\ req[p].pc = "commit"
    /\ IF storeOk
       THEN /\ developerTags' = BatchCommit(developerTags, users, req[p])[1]
            /\ users' = BatchCommit(developerTags, users, req[p])[2]
            /\ Respond(p, 200, "")
       ELSE /\ Respond(p, 500, "UNAVAILABLE")
            /\ UNCHANGED <<developerTags, users>>
    /\ UNCHANGED <<payments, started, pesapalVars, paypalVars, authUsers>>

NextRegister ==
    \/ \E p \in Procs, tag \in Tags : Register(p, tag)
    \/ \E p \in Procs, ok \in BOOLEAN : RegisterCreateUser(p, ok)
    \/ \E p \in Procs, ok \in BOOLEAN : RegisterCreateToken(p, ok)
    \/ \E p \in Procs, ok \in BOOLEAN : RegisterCommit(p, ok)
    \/ \E p \in Procs : Finish(p)

SpecRegister == Init /\ [][NextRegister]_vars

----------------------------------------------------------------------------
(* Steps of the handlers, as seen from outside *)

\* slot p takes a step of a callback or of a status poll
ChannelStep(p) == req[p].kind \in {"ipn", "poll"} /\ req'[p] # req[p]

\* slot q commits a write of the status of document d in this step
StatusWrite(q, d) ==
    /\ req[q].kind \in {"ipn", "poll"}
    /\ req[q].pc = "update" /\ req'[q].pc # "update"
    /\ req[q].id = d
    /\ req'[q].error = ""

\* slot p is inside a callback's update: status written, payment not yet added
MidUpdate(p, d) ==
    req[p].kind = "ipn" /\ req[p].pc \in {"get", "add"} /\ req[p].id = d

\* the order document carries the tracking id the gateway assigned
HasTrackingId(doc) ==
    "gatewayTrackingId" \in DOMAIN doc \/ "order_tracking_id" \in DOMAIN doc

\* the orderTrackingId parameter of the GetTransactionStatus call
StatusQueryParam(r) == r.id

----------------------------------------------------------------------------
(* Claims *)

\* C1: once the stored status of an order is COMPLETED, FAILED or INVALID, no
\* step of a callback or of a status poll changes it.
C1_TerminalMonotonic ==
    [][\A d \in DOMAIN pesapalOrders :
          (pesapalOrders[d].status \in Terminal /\ \E p \in Procs : ChannelStep(p))
             => pesapalOrders'[d].status = pesapalOrders[d].status]_vars

\* C2: whenever a delivery of the COMPLETED callback for an order has created
\* its payment and is answered, payments holds exactly one record of that
\* orderId.
C2_ExactlyOncePaymentRecord ==
    [][\A p \in Procs :
          (req[p].kind = "ipn" /\ req[p].pc = "add" /\ req'[p].resp = 200)
             => PaymentCount(payments', req[p].id) = 1]_vars

\* C3: if a payment record exists for an orderId, the stored status of that
\* order is COMPLETED.
C3_PaymentAgreesWithStatus ==
    \A d \in DocIds :
        PaymentCount(payments, d) > 0
           => d \in DOMAIN pesapalOrders /\ pesapalOrders[d].status = "COMPLETED"

\* C4: while one callback is between its status write and the creation of
\* the payment record, no other callback or poll commits a status write to
\* the same order.
C4_PerOrderSerialization ==
    [][\A p, q \in Procs, d \in DocIds :
          (p # q /\ MidUpdate(p, d)) => ~StatusWrite(q, d)]_vars

\* C5: a step of a callback whose tracking id names no stored order leaves
\* pesapalOrders and payments unchanged, and only the save of an order
\* creation ever adds an order document.
C5_UnknownCallbackWritesNothing ==
    [][/\ \A p \in Procs :
             (req[p].kind = "ipn" /\ req'[p] # req[p]
                 /\ req[p].id \notin DOMAIN pesapalOrders)
                => (pesapalOrders' = pesapalOrders /\ payments' = payments)
       /\ (DOMAIN pesapalOrders' # DOMAIN pesapalOrders
             => \E p \in Procs : req[p].kind = "create" /\ req[p].pc = "save")]_vars

\* C5 witness: a callback for an id without a document has been answered.
C5_Witness ==
    \E p \in Procs :
        req[p].kind = "ipn" /\ req[p].pc = "done" /\ req[p].error = "NOT_FOUND"

\* C6: the reply to a callback whose tracking id matches no order differs
\* from the reply to a callback that met a store failure.
C6_NotFoundDistinctFromRetryable ==
    \A p, q \in Procs :
        (/\ req[p].kind = "ipn" /\ req[p].pc = "done" /\ req[p].error = "NOT_FOUND"
         /\ req[q].kind = "ipn" /\ req[q].pc = "done" /\ req[q].error = "UNAVAILABLE")
           => req[p].resp # req[q].resp

\* C7: a callback carrying the tracking id the gateway assigned to a stored
\* order applies its status to that order, and a status poll for a stored
\* order queries the gateway with that tracking id.
C7_LookupByTrackingId ==
    [][/\ \A p \in Procs, o \in OrderIds :
             (/\ req[p].kind = "ipn" /\ req[p].pc = "update"
              /\ req'[p].pc # "update" /\ req'[p].error # "UNAVAILABLE"
              /\ o \in submitted /\ o \in DOMAIN pesapalOrders
              /\ req[p].id = TrackingIdOf(o))
                => pesapalOrders'[o].status = req[p].status
       /\ \A p \in Procs :
             (/\ req[p].kind = "poll" /\ req[p].pc = "status"
              /\ req'[p].pc # "status"
              /\ req[p].id \in submitted /\ req[p].id \in DOMAIN pesapalOrders)
                => StatusQueryParam(req[p]) = TrackingIdOf(req[p].id)]_vars

\* C8: when a status poll for a PENDING order got COMPLETED from the gateway
\* and is answered with success, the stored status is COMPLETED and exactly
\* one payment record of that orderId exists.
C8_PollCompletionCreatesPayment ==
    [][\A p \in Procs :
          (/\ req[p].kind = "poll" /\ req[p].pc = "update"
           /\ req[p].status = "COMPLETED"
           /\ req[p].id \in DOMAIN pesapalOrders
           /\ pesapalOrders[req[p].id].status = "PENDING"
           /\ req'[p].resp = 200)
             => /\ pesapalOrders'[req[p].id].status = "COMPLETED"
                /\ PaymentCount(payments', req[p].id) = 1]_vars

\* C9: while the submission call of an order creation is in flight the order
\* is stored with status CREATED, and every stored order in PENDING has a
\* gateway tracking id.
C9_LifecycleOrdering ==
    /\ \A p \in Procs :
          (req[p].kind = "create" /\ req[p].pc = "submit")
             => /\ req[p].id \in DOMAIN pesapalOrders
                /\ pesapalOrders[req[p].id].status = "CREATED"
    /\ \A d \in DOMAIN pesapalOrders :
          pesapalOrders[d].status = "PENDING" => HasTrackingId(pesapalOrders[d])

\* C10: at most one authentication call is in flight at any time; requests
\* that need a credential meanwhile share it.
C10_SingleFlightAuth ==
    Cardinality({p \in Procs : req[p].pc = "auth"}) <= 1

----------------------------------------------------------------------------
(* Claims on credentials, validation and gateway failures *)

\* errors thrown by the handling of an auth response
AuthErrors == {"fetch failed", "PesaPal auth failed", "no access token"}

\* errors that report a token rejection (401) by the gateway
TokenRejections == {"order submission failed: 401", "Status check failed: 401"}

\* C11: while a token issued by the gateway has not expired, no step makes
\* an authentication call.
C11_TokenReuse ==
    [][tokenLive => authCalls' = authCalls]_vars

C13_PositiveAmount ==
    \A d \in DOMAIN pesapalOrders : pesapalOrders[d].amount > 0

\* C14: a status query without orderId is answered 400 without a gateway
\* call or a write; a status query for an orderId without a stored order,
\* when neither the gateway nor the store failed, is answered 404 and
\* writes nothing.
C14_StatusQueryIntake ==
    [][\A p \in Procs :
          /\ (req[p].pc = "idle" /\ req'[p].kind = "poll" /\ req'[p].pc = "done")
                => /\ req'[p].resp = 400
                   /\ authCalls' = authCalls
                   /\ pesapalOrders' = pesapalOrders
          /\ (/\ req[p].kind = "poll" /\ req[p].pc \in {"status", "update"}
              /\ req'[p].pc = "done"
              /\ req[p].id \notin DOMAIN pesapalOrders
              /\ req'[p].error \notin
                    {"Status check failed", "Status check failed: 401", "UNAVAILABLE"})
                => /\ req'[p].resp = 404
                   /\ pesapalOrders' = pesapalOrders
                   /\ payments' = payments]_vars

C16_TokenRejectionRetriedOnce ==
    [][\A p \in Procs :
          req[p].pc \in {"submit", "status"}
             => req'[p].error \notin TokenRejections]_vars

\* C17: the handling of a submission response either goes on to the save or
\* ends the request with a server error that carries the error; a rejected
\* submission writes nothing and the submission is not sent again.
C17_NoBlindRetry ==
    [][\A p \in Procs :
          /\ (req[p].kind = "create" /\ req[p].pc = "submit" /\ req'[p] # req[p])
                => \/ req'[p].pc = "save"
                   \/ /\ req'[p].pc = "done"
                      /\ req'[p].resp = 500
                      /\ req'[p].error # ""
                      /\ pesapalOrders' = pesapalOrders
          /\ (req[p].kind = "create" /\ req[p].pc = "save" /\ req'[p] # req[p])
                => req'[p].pc = "done"]_vars

\* C17 witness: an order creation ended on a rejected submission.
C17_Witness ==
    \E p \in Procs :
        /\ req[p].kind = "create" /\ req[p].pc = "done" /\ req[p].resp = 500
        /\ req[p].error = "order submission failed"

C19_CallbackResponseRule ==
    [][\A p \in Procs :
          /\ (req[p].kind = "ipn" /\ req[p].pc # "done" /\ req'[p].pc = "done")
                => /\ req'[p].resp = 200 <=> req'[p].error = ""
                   /\ req'[p].resp = 500 <=> req'[p].error # ""
          /\ (/\ req[p].kind = "ipn" /\ req[p].pc = "update"
              /\ req'[p].pc # "update" /\ req'[p].error # "UNAVAILABLE"
              /\ req[p].id \in DOMAIN pesapalOrders
              /\ pesapalOrders[req[p].id].status \in Terminal
              /\ req[p].status \in Terminal
              /\ req[p].status # pesapalOrders[req[p].id].status)
                => pesapalOrders'[req[p].id].status
                      = pesapalOrders[req[p].id].status]_vars

\* C20: every request that waits for an answer of the gateway (auth,
\* submission, status query) has its abort timer armed.
C20_EveryRemoteCallTimed ==
    \A p \in Procs :
        req[p].pc \in {"auth", "submit", "status"} => req[p].timer

\* errors after which the gateway has not taken the submission
SubmitRejections ==
    {"fetch failed", "order submission failed", "order submission failed: 401"}

\* C21: whenever the submission call has succeeded for an order (the gateway
\* answered 2xx), the handler goes on to write the order to the store,
\* whatever the rest of the response contains.
C21_SubmittedOrderNeverLost ==
    [][\A p \in Procs :
          (/\ req[p].kind = "create" /\ req[p].pc = "submit"
           /\ req'[p].pc # "submit"
           /\ req'[p].error \notin SubmitRejections)
             => req'[p].pc = "save"]_vars

\* C22: a creation never generates an orderId that is stored already or that
\* another creation in flight holds, and the write of a creation never lands
\* on a document that exists already.
C22_OrderIdsUnique ==
    [][\A p \in Procs :
          /\ (req[p].pc = "idle" /\ req'[p].kind = "create" /\ req'[p].pc = "auth")
                => /\ req'[p].id \notin DOMAIN pesapalOrders
                   /\ \A q \in Procs \ {p} :
                         ~(req[q].kind = "create" /\ req[q].id = req'[p].id)
          /\ (/\ req[p].kind = "create" /\ req[p].pc = "save"
              /\ req'[p].pc = "done" /\ req'[p].resp = 200)
                => req[p].id \notin DOMAIN pesapalOrders]_vars

\* C23: the status of every stored order is one of CREATED, PENDING,
\* COMPLETED, FAILED, INVALID, ERROR.
C23_StatusInAlphabet ==
    \A d \in DOMAIN pesapalOrders :
        pesapalOrders[d].status
            \in {"CREATED", "PENDING", "COMPLETED", "FAILED", "INVALID", "ERROR"}

\* C24: no step changes the orderId of a stored order, and no step changes a
\* tracking id that a stored order carries.
C24_IdentifierImmutability ==
    [][\A d \in DOMAIN pesapalOrders :
          /\ d \in DOMAIN pesapalOrders'
          /\ "orderId" \in DOMAIN pesapalOrders'[d]
          /\ pesapalOrders'[d].orderId = pesapalOrders[d].orderId
          /\ HasTrackingId(pesapalOrders[d])
                => /\ HasTrackingId(pesapalOrders'[d])
                   /\ \A f \in {"gatewayTrackingId", "order_tracking_id"} :
                         f \in DOMAIN pesapalOrders[d]
                            => /\ f \in DOMAIN pesapalOrders'[d]
                               /\ pesapalOrders'[d][f] = pesapalOrders[d][f]]_vars

\* a callback has rewritten the status of a stored order, whose orderId is
\* still the id it was stored under
C24_Witness ==
    \E d \in DOMAIN pesapalOrders :
        /\ pesapalOrders[d].status # "PENDING"
        /\ pesapalOrders[d].orderId = d

\* C25: when the submission of a created order fails, the order is stored
\* with status ERROR; and no step of a callback or poll changes the status of
\* an order in ERROR.
C25_IntegrationFailureEndsInError ==
    [][/\ \A p \in Procs :
             (/\ req[p].kind = "create" /\ req[p].pc = "submit"
              /\ req'[p].pc = "done")
                => /\ req[p].id \in DOMAIN pesapalOrders'
                   /\ pesapalOrders'[req[p].id].status = "ERROR"
       /\ \A d \in DOMAIN pesapalOrders :
             (pesapalOrders[d].status = "ERROR" /\ \E p \in Procs : ChannelStep(p))
                => pesapalOrders'[d].status = "ERROR"]_vars

\* C26: a callback for a stored order the gateway took, naming the order by
\* its merchant reference or by the tracking id the gateway assigned, is not
\* answered with a failure when the store is available (so that its
\* redelivery ends).
C26_RedeliveryTerminates ==
    [][\A p \in Procs, o \in OrderIds :
          (/\ req[p].kind = "ipn" /\ req[p].pc = "update"
           /\ req'[p].pc # "update"
           /\ req'[p].error # "UNAVAILABLE"
           /\ o \in DOMAIN pesapalOrders /\ o \in submitted
           /\ req[p].id \in {o, TrackingIdOf(o)})
             => req'[p].resp # 500]_vars

\* C27: in the callback handler the status write comes before the payment
\* record and both come before the success reply: the step that leaves the
\* update writes COMPLETED and adds no record, a COMPLETED callback is
\* answered with success only by the step that adds the record for its order
\* id, and a failure after the status write replies 500 and writes nothing.
C27_AcknowledgedCompletionHasRecord ==
    [][\A p \in Procs :
          /\ (req[p].kind = "ipn" /\ req[p].pc = "update" /\ req'[p].pc = "get")
                => /\ pesapalOrders'[req[p].id].status = "COMPLETED"
                   /\ payments' = payments
          /\ (/\ req[p].kind = "ipn" /\ req[p].status = "COMPLETED"
              /\ req[p].pc # "done" /\ req'[p].pc = "done" /\ req'[p].resp = 200)
                => /\ req[p].pc = "add"
                   /\ PaymentCount(payments', req[p].id)
                         = PaymentCount(payments, req[p].id) + 1
          /\ (/\ req[p].kind = "ipn" /\ req[p].pc \in {"get", "add"}
              /\ req'[p].pc = "done" /\ req'[p].resp # 200)
                => /\ req'[p].resp = 500
                   /\ payments' = payments
                   /\ pesapalOrders' = pesapalOrders]_vars

\* a COMPLETED callback was answered with success and the record of its
\* order is in payments
C27_Witness ==
    \E p \in Procs, d \in DOMAIN pesapalOrders :
        /\ req[p].kind = "ipn" /\ req[p].pc = "done" /\ req[p].resp = 200
        /\ pesapalOrders[d].status = "COMPLETED"
        /\ PaymentCount(payments, d) >= 1

\* C28: a status poll whose gateway response carries no payment status
\* answers 200 without any write: a poll reaches its update only with a
\* payment status, the step that ends a poll at the status response without
\* an error replies 200, and no step of a poll outside its update changes
\* the orders or the payments.
C28_PollWithoutStatusWritesNothing ==
    [][\A p \in Procs :
          /\ (req[p].kind = "poll" /\ req[p].pc = "status" /\ req'[p].pc = "update")
                => req'[p].status # ""
          /\ (/\ req[p].kind = "poll" /\ req[p].pc = "status"
              /\ req'[p].pc = "done" /\ req'[p].error = "")
                => req'[p].resp = 200
          /\ (/\ req[p].kind = "poll" /\ req'[p] # req[p]
              /\ ~(req[p].pc = "update" /\ req[p].status # ""))
                => /\ pesapalOrders' = pesapalOrders
                   /\ payments' = payments]_vars

\* a poll was answered 200 while no order is stored: its status response
\* carried no payment status
C28_Witness ==
    \E p \in Procs :
        /\ req[p].kind = "poll" /\ req[p].pc = "done" /\ req[p].resp = 200
        /\ DOMAIN pesapalOrders = {}

\* C29: in the capture flow an order becomes COMPLETED only after PayPal
\* captured it; a step of a capture whose capture call failed, or whose order
\* id has no stored order, changes neither paypalOrders nor payments; and
\* after every step each 'paypal' payment record belongs to a stored order
\* with status COMPLETED.
C29_PayPalCaptureOrdering ==
    [][/\ \A d \in DOMAIN paypalOrders' :
             (/\ paypalOrders'[d].status = "COMPLETED"
              /\ (d \notin DOMAIN paypalOrders
                     \/ paypalOrders[d].status # "COMPLETED"))
                => /\ d \in DOMAIN paypalGateway
                   /\ paypalGateway[d] = "COMPLETED"
       /\ \A p \in Procs :
             (/\ req[p].kind = "capture" /\ req'[p] # req[p]
              /\ \/ req[p].pc = "execute" /\ req'[p].pc = "done"
                 \/ req[p].id \notin DOMAIN paypalOrders)
                => /\ paypalOrders' = paypalOrders
                   /\ payments' = payments
       /\ \A r \in BagToSet(payments') :
             r.paymentMethod = "paypal"
                => /\ r.orderId \in DOMAIN paypalOrders'
                   /\ paypalOrders'[r.orderId].status = "COMPLETED"]_vars

\* a capture was answered with success and its payment record is stored
C29_Witness ==
    /\ \E p \in Procs :
          req[p].kind = "capture" /\ req[p].pc = "done" /\ req[p].resp = 200
    /\ \E r \in BagToSet(payments) :
          /\ r.paymentMethod = "paypal"
          /\ paypalOrders[r.orderId].status = "COMPLETED"

\* C30: a registration without a tag is answered 400 and neither creates an
\* auth user nor writes a document; a registration that goes on has a tag;
\* every step writes the tag document and the user document together or
\* neither; and after every step each user document has a tag document for
\* its tag.
C30_RegistrationAllOrNothing ==
    [][/\ \A p \in Procs :
             /\ (/\ req[p].pc = "idle" /\ req'[p].kind = "register"
                 /\ req'[p].pc = "done")
                   => /\ req'[p].resp = 400
                      /\ UNCHANGED <<authUsers, developerTags, users>>
             /\ (req[p].pc = "idle" /\ req'[p].pc = "createUser")
                   => req'[p].tag # ""
       /\ (developerTags' # developerTags) <=> (users' # users)
       /\ \A u \in DOMAIN users' : users'[u].tag \in DOMAIN developerTags']_vars

\* two registrations were committed: two user documents, each with the tag
\* document of its tag
C30_Witness ==
    /\ Cardinality(DOMAIN users) = 2
    /\ \A u \in DOMAIN users : users[u].tag \in DOMAIN developerTags
    /\ \E p \in Procs :
          req[p].kind = "register" /\ req[p].pc = "done" /\ req[p].resp = 200

====
